---- MODULE Spec2Model ----
(***************************************************************************)
(* A model of rjgtoys.cli._base: the specification parser                  *)
(* (Tool._parse_part), the validator (Tool.validate_spec), the candidate   *)
(* table built by Tool.__init__, the phrase-resolving loop of Tool.main     *)
(* with its handlers, and the steps of Command.main.                       *)
(*                                                                         *)
(* A Python str is a sequence of atoms.  The atoms " ", "." and "_" are    *)
(* the characters the code looks at (split(' '), lstrip('.'),              *)
(* startswith('_')); every other atom stands for a non-empty run of        *)
(* characters that holds none of those three.                              *)
(***************************************************************************)
EXTENDS Integers, Sequences, FiniteSets, TLC

VARIABLES
    pc,         \* where the program is: "new", "spec", "failed", "ready",
                \* "loop", "post", "command", "done"
    data,       \* the nested specification handed to spec_from_dict
    commands,   \* the hand-supplied (phrase, target) pairs handed to Tool()
    spec,       \* what spec_from_dict returned
    error,      \* the exception a construction step raised
    cmds,       \* Tool.cmds, the candidate table
    supplied,   \* the argv parameter of Tool.main
    sysargv,    \* sys.argv[1:] as Tool.main read it (empty when it did not)
    importable, \* the dotted names the symbol resolver can find
    argv,       \* Tool.main: argv after line 344
    pos,        \* Tool.main: how many tokens the iterator has given out
    possible,   \* Tool.main: the candidate subset
    prefix,     \* Tool.main: the consumed prefix
    passes,     \* Tool.main: passes of the while loop begun
    outcome,    \* Tool.main: how the dispatch ended
    handler,    \* the handler call Tool.main made, and what it gave back
    shown,      \* what do_help printed
    resolved,   \* the calls of resolve(), in order: site and target
    invoked,    \* the command Tool.main instantiated and ran: where its
                \* main is, the steps it has run, and what it gave back
    result      \* what Tool.main returned or raised

vars == <<pc, data, commands, spec, error, cmds, supplied, sysargv, importable,
          argv, pos, possible, prefix, passes, outcome, handler, shown,
          resolved, invoked, result>>

-----------------------------------------------------------------------------
(* Bounds of the model.                                                    *)

\* pairs in a hand-supplied command list
MaxPairs == 2
\* tokens in a supplied argument list
MaxArgv == 3
\* keys in a nested specification, over all its levels
MaxKeys == 3

-----------------------------------------------------------------------------
(* Python str, as sequences of atoms.                                      *)

\* the atoms in the order Python's character comparison gives them
AtomOrder == <<" ", "--help", "-h", ".", "A", "B", "H", "_", "a", "b", "help",
               "m", "p", "package">>

Rank(c) == CHOOSE i \in 1..Len(AtomOrder) : AtomOrder[i] = c

\* s < t for two str
RECURSIVE StrLess(_, _)
StrLess(s, t) ==
    IF t = <<>> THEN FALSE
    ELSE IF s = <<>> THEN TRUE
    ELSE IF Head(s) = Head(t) THEN StrLess(Tail(s), Tail(t))
    ELSE Rank(Head(s)) < Rank(Head(t))

\* a < b for two lists of str
RECURSIVE ListLess(_, _)
ListLess(a, b) ==
    IF b = <<>> THEN FALSE
    ELSE IF a = <<>> THEN TRUE
    ELSE IF Head(a) = Head(b) THEN ListLess(Tail(a), Tail(b))
    ELSE StrLess(Head(a), Head(b))

\* ' '.join(tokens)
RECURSIVE Join(_)
Join(tokens) ==
    IF tokens = <<>> THEN <<>>
    ELSE IF Len(tokens) = 1 THEN tokens[1]
    ELSE tokens[1] \o <<" ">> \o Join(Tail(tokens))

\* p.split(' '): one more piece than p has spaces, empty pieces included
RECURSIVE Split(_)
Split(p) ==
    IF \A i \in 1..Len(p) : p[i] # " " THEN <<p>>
    ELSE LET i == CHOOSE j \in 1..Len(p) :
                      p[j] = " " /\ \A k \in 1..(j - 1) : p[k] # " "
         IN  <<SubSeq(p, 1, i - 1)>> \o Split(SubSeq(p, i + 1, Len(p)))

\* s.lstrip('.')
RECURSIVE LStripDot(_)
LStripDot(s) ==
    IF s # <<>> /\ Head(s) = "." THEN LStripDot(Tail(s)) ELSE s

\* s.startswith('_')
StartsWithUnderscore(s) == s # <<>> /\ Head(s) = "_"

\* a[:n]
Take(a, n) == SubSeq(a, 1, IF n < Len(a) THEN n ELSE Len(a))

\* a[:-1]
Front(a) == SubSeq(a, 1, Len(a) - 1)

-----------------------------------------------------------------------------
(* Target references: a dotted str, or an object that is not a str.        *)

Str(v) == [isstr |-> TRUE, v |-> v]
Obj(v) == [isstr |-> FALSE, v |-> v]

TargetA == Str(<<"m", ".", "A">>)
TargetB == Str(<<"m", ".", "B">>)
TargetH == Obj(<<"H">>)

-----------------------------------------------------------------------------
(* Nested specification data: what yaml_load or a caller hands to          *)
(* spec_from_dict.  A node is a str, a mapping (its items in iteration     *)
(* order, keys distinct) or a value that is neither.                       *)

StrNode(s) == [kind |-> "str", s |-> s, items |-> <<>>]
MapNode(items) == [kind |-> "map", s |-> <<>>, items |-> items]
OtherNode == [kind |-> "other", s |-> <<>>, items |-> <<>>]

PackageKey == <<"_", "package">>

SpecKeys == {<<"a">>, <<"a", " ", "a">>, PackageKey}

LeafValues == {StrNode(<<"A">>), StrNode(<<"B">>), OtherNode}

\* the item sequences of exactly n keys over all levels: a first item whose
\* value holds j of them, then the items that hold the rest
RECURSIVE MappingsOf(_)
MappingsOf(n) ==
    IF n = 0 THEN {<<>>}
    ELSE UNION {
             LET values == IF j = 0 THEN LeafValues \cup {MapNode(<<>>)}
                           ELSE { MapNode(m) : m \in MappingsOf(j) }
                 rests == MappingsOf(n - 1 - j)
             IN  { <<<<t[1], t[2]>>>> \o t[3] :
                     t \in { u \in SpecKeys \X values \X rests :
                               \A i \in 1..Len(u[3]) : u[3][i][1] # u[1] } } :
             j \in 0..(n - 1) }

\* the item sequences of at most n keys
Mappings(n) == UNION { MappingsOf(k) : k \in 0..n }

\* two larger specifications: one with two ambiguous phrases, and the
\* nesting of test_nest (a package key at every level, two sibling groups)
TwoAmbiguous ==
    << <<<<"a", " ", "b">>, StrNode(<<"A">>)>>,
       <<<<"a">>, MapNode(<< <<<<"b">>, StrNode(<<"B">>)>> >>)>>,
       <<<<"b">>, MapNode(<< <<<<"a">>, StrNode(<<"A">>)>> >>)>>,
       <<<<"b", " ", "a">>, StrNode(<<"B">>)>> >>

Podbay ==
    << <<PackageKey, StrNode(<<"p">>)>>,
       <<<<"a">>, MapNode(<<
           <<PackageKey, StrNode(<<"m">>)>>,
           <<<<"a">>, MapNode(<< <<PackageKey, StrNode(<<"a">>)>>,
                                <<<<"a">>, StrNode(<<"A">>)>>,
                                <<<<"b">>, StrNode(<<"B">>)>> >>)>>,
           <<<<"b">>, MapNode(<< <<PackageKey, StrNode(<<"b">>)>>,
                                <<<<"a">>, StrNode(<<"A">>)>>,
                                <<<<"b">>, StrNode(<<"B">>)>> >>)>> >>)>> >>

\* a specification: the root mapping, and whether its mappings give their
\* keys as attributes (the loader's mapping type) or are plain dicts
SpecData ==
    [given : {TRUE}, thing : BOOLEAN,
     root : { MapNode(m) : m \in Mappings(MaxKeys) \cup {TwoAmbiguous, Podbay} }]

NoData == [given |-> FALSE, thing |-> FALSE, root |-> MapNode(<<>>)]

-----------------------------------------------------------------------------
(* Tool._parse_part, lines 301-321.                                        *)

\* data._package: the attribute, or AttributeError
HasPackage(node, thing) ==
    thing /\ \E i \in 1..Len(node.items) : node.items[i][1] = PackageKey

PackageOf(node) ==
    node.items[CHOOSE i \in 1..Len(node.items) : node.items[i][1] = PackageKey][2]

\* (namespace + '.' + name).lstrip('.')
Qualify(namespace, name) == LStripDot(namespace \o <<".">> \o name)

\* finally: tokens = tokens[:-1]
KeepTokens(tokens) == tokens
RestoreTokens(tokens) == SubSeq(tokens, 1, Len(tokens) - 1)

\* how a call of _parse_part ends: the pairs it yielded or the exception it
\* raised, and the value its local tokens is left with
ParseOk(pairs, tokens) == [err |-> "", pairs |-> pairs, tokens |-> tokens]
ParseErr(e, tokens) == [err |-> e, pairs |-> <<>>, tokens |-> tokens]

RECURSIVE _parse_part(_, _, _, _)
RECURSIVE parse_items(_, _, _, _, _)

\* the for loop of lines 309-321, from item i on
parse_items(namespace, tokens, items, i, thing) ==
    IF i > Len(items) THEN ParseOk(<<>>, tokens)
    ELSE LET phrase == items[i][1]
             body == items[i][2]
         IN  IF StartsWithUnderscore(phrase)
             THEN parse_items(namespace, tokens, items, i + 1, thing)
             ELSE LET pushed == tokens \o <<phrase>>
                      here == IF body.kind = "str"
                              THEN ParseOk(<< <<Join(pushed),
                                               Str(Qualify(namespace, body.s))>> >>,
                                           pushed)
                              ELSE IF body.kind = "map"
                              THEN _parse_part(namespace, pushed, body, thing)
                              ELSE ParseErr("AssertionError", pushed)
                      popped == RestoreTokens(pushed)
                  IN  IF here.err # "" THEN ParseErr(here.err, popped)
                      ELSE LET rest == parse_items(namespace, popped, items,
                                                   i + 1, thing)
                           IN  IF rest.err # "" THEN rest
                               ELSE ParseOk(here.pairs \o rest.pairs,
                                            rest.tokens)

_parse_part(namespace, tokens, node, thing) ==
    IF HasPackage(node, thing)
    THEN IF PackageOf(node).kind = "str"
         THEN parse_items(Qualify(namespace, PackageOf(node).s), tokens,
                          node.items, 1, thing)
         ELSE ParseErr("TypeError", tokens)
    ELSE parse_items(namespace, tokens, node.items, 1, thing)

\* Tool._spec_from_dict, collected by list()
_spec_from_dict(d) == _parse_part(<<>>, <<>>, d.root, d.thing)

-----------------------------------------------------------------------------
(* Tool.validate_spec and Tool._spec_errors, lines 278-299.                *)

\* the distinct phrases of a pair sequence, in order of first occurrence
RECURSIVE PhrasesOf(_)
PhrasesOf(pairs) ==
    IF pairs = <<>> THEN <<>>
    ELSE LET before == PhrasesOf(Front(pairs))
             p == pairs[Len(pairs)][1]
         IN  IF \E i \in 1..Len(before) : before[i] = p THEN before
             ELSE before \o <<p>>

\* targets[phrase]
ImplsOf(pairs, phrase) ==
    { pairs[i][2] : i \in { j \in 1..Len(pairs) : pairs[j][1] = phrase } }

IsAmbiguousOnlyThree(impls) == Cardinality(impls) > 2
IsAmbiguous(impls) == Cardinality(impls) > 1

_spec_errors(pairs) ==
    LET ph == PhrasesOf(pairs)
    IN  SelectSeq([i \in 1..Len(ph) |-> <<ph[i], ImplsOf(pairs, ph[i])>>],
                  LAMBDA e : IsAmbiguous(e[2]))

\* SpecificationError(errors), lines 60-69: one line per phrase, naming the
\* phrase and the joined targets (a set: its order is the set's own)
SpecificationError(errors) ==
    [type |-> "SpecificationError",
     errs |-> [i \in 1..Len(errors) |->
                  [phrase |-> errors[i][1], impls |-> errors[i][2]]]]

Raised(type) == [type |-> type, errs |-> <<>>]
NoError == Raised("")

\* return spec
ReturnDeduplicated(pairs) ==
    SelectSeq([i \in 1..Len(pairs) |->
                  IF \E j \in 1..(i - 1) : pairs[j] = pairs[i]
                  THEN <<>> ELSE pairs[i]],
              LAMBDA e : e # <<>>)
ReturnSpec(pairs) == pairs

validate_spec(pairs) ==
    LET errors == _spec_errors(pairs)
    IN  IF errors # <<>>
        THEN [error |-> SpecificationError(errors), spec |-> <<>>]
        ELSE [error |-> NoError, spec |-> ReturnSpec(pairs)]

\* Tool.spec_from_dict, lines 267-272
spec_from_dict(d) ==
    LET parsed == _spec_from_dict(d)
    IN  IF parsed.err # ""
        THEN [error |-> Raised(parsed.err), spec |-> <<>>]
        ELSE validate_spec(parsed.pairs)

-----------------------------------------------------------------------------
(* Tool.__init__, lines 219-221: the candidate table.                      *)

\* x < y for two (tokens, phrase, target) triples whose targets are str
EntryLessNever(x, y) == FALSE
EntryLess(x, y) ==
    IF x[1] # y[1] THEN ListLess(x[1], y[1])
    ELSE IF x[2] # y[2] THEN StrLess(x[2], y[2])
    ELSE StrLess(x[3].v, y[3].v)

\* tuple comparison reaches the targets when all before them is equal and
\* they differ; an object that is not a str has no order: TypeError
Unorderable(entries) ==
    \E i, j \in 1..Len(entries) :
        /\ i < j
        /\ entries[i][2] = entries[j][2]
        /\ entries[i][3] # entries[j][3]
        /\ ~(entries[i][3].isstr /\ entries[j][3].isstr)

\* sorted(): e goes before the first entry it is less than
RECURSIVE SortedInsert(_, _)
SortedInsert(e, sorted) ==
    IF sorted = <<>> THEN <<e>>
    ELSE IF EntryLess(e, Head(sorted)) THEN <<e>> \o sorted
    ELSE <<Head(sorted)>> \o SortedInsert(e, Tail(sorted))

RECURSIVE Sorted(_)
Sorted(entries) ==
    IF entries = <<>> THEN <<>>
    ELSE SortedInsert(entries[Len(entries)], Sorted(Front(entries)))

\* (p.split(' '), p, c) for (p, c) in commands
Triples(pairs) ==
    [i \in 1..Len(pairs) |-> <<Split(pairs[i][1]), pairs[i][1], pairs[i][2]>>]

__init__(pairs) ==
    IF Unorderable(Triples(pairs))
    THEN [error |-> Raised("TypeError"), cmds |-> <<>>]
    ELSE [error |-> NoError, cmds |-> Sorted(Triples(pairs))]

-----------------------------------------------------------------------------
(* resolve, lines 406-422, and Tool.do_help, lines 323-337.                *)

\* resolve(name): a name that is not a str is the object itself; a str is
\* looked up by import or in the module's globals, and the environment
\* decides whether that finds an object or raises
resolve(name, env) ==
    IF ~name.isstr THEN [raised |-> FALSE, object |-> name]
    ELSE IF name \in env THEN [raised |-> FALSE, object |-> Obj(name.v)]
    ELSE [raised |-> TRUE, object |-> Obj(<<>>)]

Resolves(name, env) == ~resolve(name, env).raised

ResolveCall(site, name) == [site |-> site, target |-> name]

DefaultHeading == [text |-> "Valid commands:", quoted |-> <<>>]

\* the first candidate whose target does not resolve, or 0
FirstStale(possible_, env) ==
    IF \A i \in 1..Len(possible_) : Resolves(possible_[i][3], env) THEN 0
    ELSE CHOOSE i \in 1..Len(possible_) :
             /\ ~Resolves(possible_[i][3], env)
             /\ \A j \in 1..(i - 1) : Resolves(possible_[j][3], env)

\* except Exception as e: raise
DoHelpExceptSwallow(stale) == FALSE
DoHelpExcept(stale) == stale # 0

\* what do_help prints and whether it raises; it returns None
do_help(possible_, heading, env) ==
    LET stale == FirstStale(possible_, env)
        raised == DoHelpExcept(stale)
        n == IF raised THEN stale - 1 ELSE Len(possible_)
    IN  [heading |-> heading,
         lines |-> [i \in 1..n |->
                       [phrase |-> possible_[i][2],
                        desc |-> IF Resolves(possible_[i][3], env)
                                 THEN <<"description of">> \o possible_[i][3].v
                                 ELSE <<"BUG">>]],
         calls |-> [i \in 1..(IF stale # 0 THEN stale ELSE Len(possible_)) |->
                       ResolveCall("do_help", possible_[i][3])],
         raised |-> raised]

Returned(v) == [kind |-> "return", v |-> v]
Raise(v) == [kind |-> "raise", v |-> v]
NoResult == [kind |-> "none", v |-> ""]

\* what a handler that ends in do_help gives back
HelpResult(help) == IF help.raised THEN Raise("ResolveError") ELSE Returned("None")

\* Tool.handle_unrecognised, lines 388-395
UnrecognisedHeading(prefix_) ==
    IF prefix_ # <<>>
    THEN [text |-> "Unrecognised command '', valid options are:",
          quoted |-> Join(prefix_)]
    ELSE [text |-> "Unrecognised command, valid options are:", quoted |-> <<>>]

\* Tool.handle_incomplete, lines 397-404
IncompleteHeading(prefix_) ==
    IF prefix_ # <<>>
    THEN [text |-> "Incomplete command '', could be one of:",
          quoted |-> Join(prefix_)]
    ELSE [text |-> "Incomplete command, could be one of:", quoted |-> <<>>]

\* a handler call: its arguments, and what it gave back
HandlerCall(name, prefix_, possible_) ==
    [name |-> name, prefix |-> prefix_, possible |-> possible_,
     gave |-> NoResult]

handle_unrecognised(prefix_, possible_, env) ==
    do_help(possible_, UnrecognisedHeading(prefix_), env)

handle_incomplete(prefix_, possible_, env) ==
    do_help(possible_, IncompleteHeading(prefix_), env)

NoHandler == HandlerCall("", <<>>, <<>>)
NoHelp == [heading |-> [text |-> "", quoted |-> <<>>], lines |-> <<>>,
           calls |-> <<>>, raised |-> FALSE]
NotInvoked == [called |-> FALSE, target |-> Obj(<<>>), name |-> <<>>,
               argv |-> <<>>, at |-> "", ran |-> <<>>, printed |-> FALSE,
               gave |-> NoResult]

-----------------------------------------------------------------------------
(* The inputs.                                                             *)

PhraseStrings == {<<"a">>, <<"b">>, <<"a", " ", "b">>, <<"help">>}

HandTargets == {TargetA, TargetB, TargetH}

HandPairs == PhraseStrings \X HandTargets

\* the hand-supplied command lists of at most n pairs
PairLists(n) == UNION { [1..k -> HandPairs] : k \in 0..n }

ArgTokens == {<<"a">>, <<"b">>, <<"help">>}

ArgLists(n) == UNION { [1..k -> ArgTokens] : k \in 0..n }

\* main(argv=None), or main(argv) with a list
NotSupplied == [given |-> FALSE, v |-> <<>>]
Supplied(v) == [given |-> TRUE, v |-> v]

SuppliedArgs == {NotSupplied} \cup { Supplied(v) : v \in ArgLists(MaxArgv) }

SysArgvs == {<<>>, <<<<"a">>, <<"b">>>>}

Environments == SUBSET {TargetA, TargetB}

-----------------------------------------------------------------------------
(* Tool.main, lines 339-386.                                               *)

\* argv = argv or sys.argv[1:]: sys.argv is read when argv is None or empty
ReadsSysArgv(s) == ~(s.given /\ s.v # <<>>)

EffectiveArgv(s, sa) == IF ReadsSysArgv(s) THEN sa ELSE s.v

\* t in ('help','--help','-h')
IsHelpMarkerNever(t) == FALSE
IsHelpMarker(t) == t \in {<<"help">>, <<"--help">>, <<"-h">>}

\* len(possible) == 1 and possible[0][0] == prefix
UniqueMatchAnyOne(possible_, prefix_) == Len(possible_) = 1
UniqueMatch(possible_, prefix_) ==
    Len(possible_) = 1 /\ possible_[1][1] = prefix_

\* [(p,s,c) for (p,s,c) in possible if p[:len(prefix)] == prefix]
NarrowKeepsAll(possible_, prefix_) == possible_
Narrow(possible_, prefix_) ==
    SelectSeq(possible_, LAMBDA e : Take(e[1], Len(prefix_)) = prefix_)

\* possible = next_state: the name possible is bound to the new list, and
\* the list self.cmds names is left as it is
CmdsNarrowedInPlace(table, next_state) == next_state
CmdsAfterNarrow(table, next_state) == table

\* self.handle_unrecognised(prefix, possible)
UnrecognisedCallNarrowed(prefix_, possible_, next_state) ==
    HandlerCall("handle_unrecognised", prefix_, next_state)
UnrecognisedCall(prefix_, possible_, next_state) ==
    HandlerCall("handle_unrecognised", prefix_, possible_)

\* self.handle_incomplete(prefix, possible)
IncompleteCallWholeTable(prefix_, possible_, table) ==
    HandlerCall("handle_incomplete", prefix_, table)
IncompleteCall(prefix_, possible_, table) ==
    HandlerCall("handle_incomplete", prefix_, possible_)

\* argv[len(prefix):]
CmdArgvWhole(argv_, prefix_) == argv_
CmdArgv(argv_, prefix_) == SubSeq(argv_, Len(prefix_) + 1, Len(argv_))

-----------------------------------------------------------------------------
(* Command.main, lines 201-209.                                            *)

\* the calls of Command.main, in the order of lines 202-206
Steps == <<"parse_args", "check_arguments", "handle_arguments", "action">>

NextStep(step) ==
    IF step = "parse_args" THEN "check_arguments"
    ELSE IF step = "check_arguments" THEN "handle_arguments"
    ELSE "action"

Completed == "completed"

\* parse_args: the parser gives the options, or exits, or an argument
\* action of the command raises
ParseOutcomes == {Completed, "SystemExit", "HelpNeeded"}

\* check_arguments and handle_arguments: hooks of the command
HookOutcomes == {Completed, "CommandError", "HelpNeeded"}

\* args._action(args): what run() returns, or raises
ActionReturns == {"None", "0", "1"}
ActionRaises == {"CommandError", "HelpNeeded"}

\* the try of lines 204-209 holds handle_arguments and the action
InTry(step) == step \in {"handle_arguments", "action"}

\* except HelpNeeded as help
Caught(step, o) == o = "HelpNeeded" /\ InTry(step)

\* args._action(args) or 0
OrZeroKeep(v) == v
OrZero(v) == IF v \in {"None", "0"} THEN "0" ELSE v

\* a step of Command.main has given o: main goes on to the next step, or
\* prints the help and returns 0, or lets the exception out
AfterStep(step, o) ==
    LET ran == Append(invoked.ran, [step |-> step, gave |-> o])
        r == IF Caught(step, o) THEN Returned("0") ELSE Raise(o)
    IN  IF o = Completed
        THEN /\ invoked' = [invoked EXCEPT !.ran = ran, !.at = NextStep(step)]
             /\ UNCHANGED <<pc, result>>
        ELSE /\ invoked' = [invoked EXCEPT !.ran = ran, !.at = "",
                                           !.printed = Caught(step, o),
                                           !.gave = r]
             /\ result' = r
             /\ pc' = "done"

\* the action has returned v: return args._action(args) or 0
AfterAction(v) ==
    /\ invoked' = [invoked EXCEPT
                      !.ran = Append(invoked.ran, [step |-> "action", gave |-> v]),
                      !.at = "",
                      !.gave = Returned(OrZero(v))]
    /\ result' = Returned(OrZero(v))
    /\ pc' = "done"

-----------------------------------------------------------------------------
(* The program.                                                            *)

Idle ==
    /\ supplied = NotSupplied /\ sysargv = <<>> /\ importable = {}
    /\ argv = <<>> /\ pos = 0 /\ possible = <<>> /\ prefix = <<>>
    /\ passes = 0 /\ outcome = "" /\ handler = NoHandler /\ shown = NoHelp
    /\ resolved = <<>> /\ invoked = NotInvoked /\ result = NoResult

Init ==
    /\ pc = "new"
    /\ \/ data = NoData /\ commands \in PairLists(MaxPairs)
       \/ data \in SpecData /\ commands = <<>>
    /\ spec = <<>> /\ error = NoError /\ cmds = <<>>
    /\ Idle

dispatchVars == <<supplied, sysargv, importable, argv, pos, possible, prefix,
                  passes, outcome, handler, shown, resolved, invoked, result>>

\* Tool.spec_from_dict(data)
SpecFromDict ==
    /\ pc = "new" /\ data.given
    /\ LET r == spec_from_dict(data)
       IN  /\ error' = r.error
           /\ spec' = r.spec
           /\ pc' = IF r.error = NoError THEN "spec" ELSE "failed"
    /\ UNCHANGED <<data, commands, cmds>>
    /\ UNCHANGED dispatchVars

\* Tool(commands), or cls(spec) in from_yaml
Construct ==
    /\ \/ pc = "new" /\ ~data.given
       \/ pc = "spec"
    /\ LET r == __init__(IF pc = "spec" THEN spec ELSE commands)
       IN  /\ error' = r.error
           /\ cmds' = r.cmds
           /\ pc' = IF r.error = NoError THEN "ready" ELSE "failed"
    /\ UNCHANGED <<data, commands, spec>>
    /\ UNCHANGED dispatchVars

\* lines 341-345.  The Tool keeps cmds alone: what it was built from is the
\* caller's, and is gone by the time of the call
MainStart ==
    /\ pc = "ready"
    /\ data' = NoData /\ commands' = <<>> /\ spec' = <<>>
    /\ \E s \in SuppliedArgs, env \in Environments :
           /\ supplied' = s
           /\ importable' = env
           /\ \E sa \in (IF ReadsSysArgv(s) THEN SysArgvs ELSE {<<>>}) :
                  /\ sysargv' = sa
                  /\ argv' = EffectiveArgv(s, sa)
    /\ possible' = cmds
    /\ prefix' = <<>>
    /\ pos' = 0
    /\ pc' = "loop"
    /\ UNCHANGED <<error, cmds, passes, outcome, handler, shown, resolved,
                   invoked, result>>

\* while len(possible): false
LoopEnd ==
    /\ pc = "loop"
    /\ Len(possible) = 0
    /\ pc' = "post"
    /\ UNCHANGED <<data, commands, spec, error, cmds, supplied, sysargv,
                   importable, argv, pos, possible, prefix, passes, outcome,
                   handler, shown, resolved, invoked, result>>

\* lines 349-352: break
LoopBreak ==
    /\ pc = "loop"
    /\ Len(possible) # 0
    /\ UniqueMatch(possible, prefix)
    /\ passes' = passes + 1
    /\ outcome' = "match"
    /\ pc' = "post"
    /\ UNCHANGED <<data, commands, spec, error, cmds, supplied, sysargv,
                   importable, argv, pos, possible, prefix, handler, shown,
                   resolved, invoked, result>>

\* lines 354-357: next(tokens) raises
LoopIncomplete ==
    /\ pc = "loop"
    /\ Len(possible) # 0
    /\ ~UniqueMatch(possible, prefix)
    /\ pos = Len(argv)
    /\ passes' = passes + 1
    /\ LET call == IncompleteCall(prefix, possible, cmds)
           help == handle_incomplete(call.prefix, call.possible, importable)
       IN  /\ handler' = [call EXCEPT !.gave = HelpResult(help)]
           /\ shown' = help
           /\ resolved' = resolved \o help.calls
           /\ result' = HelpResult(help)
    /\ outcome' = "incomplete"
    /\ pc' = "done"
    /\ UNCHANGED <<data, commands, spec, error, cmds, supplied, sysargv,
                   importable, argv, pos, possible, prefix, invoked>>

\* lines 359-362: a help marker
LoopHelp ==
    /\ pc = "loop"
    /\ Len(possible) # 0
    /\ ~UniqueMatch(possible, prefix)
    /\ pos < Len(argv)
    /\ IsHelpMarker(argv[pos + 1])
    /\ passes' = passes + 1
    /\ pos' = pos + 1
    /\ LET help == do_help(possible, DefaultHeading, importable)
       IN  /\ shown' = help
           /\ resolved' = resolved \o help.calls
           /\ result' = HelpResult(help)
    /\ outcome' = "help"
    /\ pc' = "done"
    /\ UNCHANGED <<data, commands, spec, error, cmds, supplied, sysargv,
                   importable, argv, possible, prefix, handler, invoked>>

\* lines 364-369: the token leaves no candidate
LoopUnrecognised ==
    /\ pc = "loop"
    /\ Len(possible) # 0
    /\ ~UniqueMatch(possible, prefix)
    /\ pos < Len(argv)
    /\ ~IsHelpMarker(argv[pos + 1])
    /\ LET t == argv[pos + 1]
           next_state == Narrow(possible, prefix \o <<t>>)
           call == UnrecognisedCall(prefix \o <<t>>, possible, next_state)
           help == handle_unrecognised(call.prefix, call.possible, importable)
       IN  /\ next_state = <<>>
           /\ prefix' = prefix \o <<t>>
           /\ handler' = [call EXCEPT !.gave = HelpResult(help)]
           /\ shown' = help
           /\ resolved' = resolved \o help.calls
           /\ result' = HelpResult(help)
    /\ passes' = passes + 1
    /\ pos' = pos + 1
    /\ outcome' = "unrecognised"
    /\ pc' = "done"
    /\ UNCHANGED <<data, commands, spec, error, cmds, supplied, sysargv,
                   importable, argv, possible, invoked>>

\* lines 364-371: the token narrows the candidates
LoopNarrow ==
    /\ pc = "loop"
    /\ Len(possible) # 0
    /\ ~UniqueMatch(possible, prefix)
    /\ pos < Len(argv)
    /\ ~IsHelpMarker(argv[pos + 1])
    /\ LET t == argv[pos + 1]
           next_state == Narrow(possible, prefix \o <<t>>)
       IN  /\ next_state # <<>>
           /\ prefix' = prefix \o <<t>>
           /\ possible' = next_state
           /\ cmds' = CmdsAfterNarrow(cmds, next_state)
    /\ passes' = passes + 1
    /\ pos' = pos + 1
    /\ UNCHANGED <<pc, data, commands, spec, error, supplied, sysargv,
                   importable, argv, outcome, handler, shown, resolved,
                   invoked, result>>

\* line 379 with no candidate: possible[0] raises IndexError
DispatchNoCandidate ==
    /\ pc = "post"
    /\ possible = <<>>
    /\ outcome' = "error"
    /\ result' = Raise("IndexError")
    /\ pc' = "done"
    /\ UNCHANGED <<data, commands, spec, error, cmds, supplied, sysargv,
                   importable, argv, pos, possible, prefix, passes, handler,
                   shown, resolved, invoked>>

\* lines 375-382: resolve(target) raises
DispatchStale ==
    /\ pc = "post"
    /\ possible # <<>>
    /\ ~Resolves(possible[1][3], importable)
    /\ resolved' = Append(resolved, ResolveCall("main", possible[1][3]))
    /\ result' = Raise("ResolveError")
    /\ pc' = "done"
    /\ UNCHANGED <<data, commands, spec, error, cmds, supplied, sysargv,
                   importable, argv, pos, possible, prefix, passes, outcome,
                   handler, shown, invoked>>

\* lines 375-386: the command is instantiated and its main called
DispatchInvoke ==
    /\ pc = "post"
    /\ possible # <<>>
    /\ Resolves(possible[1][3], importable)
    /\ resolved' = Append(resolved, ResolveCall("main", possible[1][3]))
    /\ invoked' = [NotInvoked EXCEPT !.called = TRUE,
                                     !.target = possible[1][3],
                                     !.name = Join(prefix),
                                     !.argv = CmdArgv(argv, prefix),
                                     !.at = "parse_args"]
    /\ pc' = "command"
    /\ UNCHANGED <<data, commands, spec, error, cmds, supplied, sysargv,
                   importable, argv, pos, possible, prefix, passes, outcome,
                   handler, shown, result>>

commandFrame == <<data, commands, spec, error, cmds, supplied, sysargv,
                  importable, argv, pos, possible, prefix, passes, outcome,
                  handler, shown, resolved>>

\* line 202: args = self.parse_args(argv)
CmdParseArgs ==
    /\ pc = "command" /\ invoked.at = "parse_args"
    /\ \E o \in ParseOutcomes : AfterStep("parse_args", o)
    /\ UNCHANGED commandFrame

\* line 203: self.check_arguments(args)
CmdCheckArguments ==
    /\ pc = "command" /\ invoked.at = "check_arguments"
    /\ \E o \in HookOutcomes : AfterStep("check_arguments", o)
    /\ UNCHANGED commandFrame

\* line 205: self.handle_arguments(args)
CmdHandleArguments ==
    /\ pc = "command" /\ invoked.at = "handle_arguments"
    /\ \E o \in HookOutcomes : AfterStep("handle_arguments", o)
    /\ UNCHANGED commandFrame

\* line 206: return args._action(args) or 0
CmdAction ==
    /\ pc = "command" /\ invoked.at = "action"
    /\ \/ \E v \in ActionReturns : AfterAction(v)
       \/ \E o \in ActionRaises : AfterStep("action", o)
    /\ UNCHANGED commandFrame

\* main has returned or raised; the Tool is there for the next call
Return ==
    /\ pc = "done"
    /\ pc' = "ready"
    /\ supplied' = NotSupplied /\ sysargv' = <<>> /\ importable' = {}
    /\ argv' = <<>> /\ pos' = 0 /\ possible' = <<>> /\ prefix' = <<>>
    /\ passes' = 0 /\ outcome' = "" /\ handler' = NoHandler
    /\ shown' = NoHelp /\ resolved' = <<>> /\ invoked' = NotInvoked
    /\ result' = NoResult
    /\ UNCHANGED <<data, commands, spec, error, cmds>>

Next ==
    \/ SpecFromDict
    \/ Construct
    \/ MainStart
    \/ LoopEnd
    \/ LoopBreak
    \/ LoopIncomplete
    \/ LoopHelp
    \/ LoopUnrecognised
    \/ LoopNarrow
    \/ DispatchNoCandidate
    \/ DispatchStale
    \/ DispatchInvoke
    \/ CmdParseArgs
    \/ CmdCheckArguments
    \/ CmdHandleArguments
    \/ CmdAction
    \/ Return

Spec == Init /\ [][Next]_vars

-----------------------------------------------------------------------------
(* The claims.                                                             *)

\* p is a prefix of a
IsPrefixOf(p, a) == Len(p) <= Len(a) /\ SubSeq(a, 1, Len(p)) = p

\* the entries of the table whose token list starts with the tokens p
EntriesUnder(p) == { i \in 1..Len(cmds) : IsPrefixOf(p, cmds[i][1]) }

\* the token sequence the caller gave Tool.main: the argv parameter, or the
\* process's arguments when the parameter was left out
InputTokens == IF supplied.given THEN supplied.v ELSE sysargv

Dispatching == pc \in {"loop", "post", "command", "done"}

\* C1: for any candidate table and any input token sequence, Tool.main ends
\* after at most len(tokens)+1 passes of its loop, in one of the four
\* outcomes unique match, incomplete, unrecognised, help.
C1_FourOutcomesWithinBound ==
    Dispatching =>
        /\ passes <= Len(InputTokens) + 1
        /\ pc = "done" =>
               outcome \in {"match", "incomplete", "unrecognised", "help"}

\* C2: Tool.main instantiates and runs a command only at a unique match (one
\* candidate, whose token list is the consumed prefix); the command is that
\* entry's target, it is given exactly the tokens after the consumed prefix,
\* in order, and Tool.main gives back what the command gave.
C2_InvokesOnlyUniqueMatch ==
    invoked.called =>
        /\ pc \in {"command", "done"}
        /\ outcome = "match"
        /\ Len(possible) = 1
        /\ possible[1][1] = prefix
        /\ \E i \in 1..Len(cmds) : cmds[i] = possible[1]
        /\ invoked.target = possible[1][3]
        /\ prefix \o invoked.argv = argv
        /\ result = invoked.gave

C2_Witness ==
    /\ invoked.called
    /\ Len(prefix) = 2
    /\ invoked.argv # <<>>
    /\ Len(cmds) = 2

\* the tokens of the input before the first help marker
NoHelpMarkerIn(a) == \A i \in 1..Len(a) : ~IsHelpMarker(a[i])

\* no phrase occurs twice in the table
DistinctPhrases == \A i, j \in 1..Len(cmds) : cmds[i][2] = cmds[j][2] => i = j

\* the entries whose whole token list is a prefix of the input
PhrasesStartingInput == { i \in 1..Len(cmds) : IsPrefixOf(cmds[i][1], argv) }

\* C3: when some phrase of the table is a prefix of the input, Tool.main
\* resolves to the longest such phrase and hands the rest of the input to its
\* command, also when one phrase of the table is a strict prefix of another
\* (stated for tables without a repeated phrase and inputs without a help
\* marker).
C3_LongestPhraseWins ==
    (/\ pc = "done"
     /\ DistinctPhrases
     /\ NoHelpMarkerIn(argv)
     /\ PhrasesStartingInput # {}) =>
        /\ outcome = "match"
        /\ \E i \in PhrasesStartingInput :
               /\ \A j \in PhrasesStartingInput :
                      Len(cmds[j][1]) <= Len(cmds[i][1])
               /\ prefix = cmds[i][1]
               /\ possible = <<cmds[i]>>

\* the entries under p, as the sub-sequence of the table
TableUnder(p) == SelectSeq(cmds, LAMBDA e : IsPrefixOf(p, e[1]))

\* resolve() was called from Tool.main itself, to run a command
ResolvedToRun == \E i \in 1..Len(resolved) : resolved[i].site = "main"

\* C4: the unrecognised-command handler is called at the first consumed token
\* that leaves no table entry under the consumed prefix; it gets the consumed
\* prefix, ending with that token, and the candidates as they were before the
\* narrowing, which are not empty; Tool.main gives back what the handler
\* gave, and resolves and instantiates no command.
C4_UnrecognisedAtFirstFailingToken ==
    /\ (Dispatching /\ prefix # <<>> /\ EntriesUnder(prefix) = {}) =>
           outcome = "unrecognised"
    /\ outcome = "unrecognised" =>
           /\ handler.name = "handle_unrecognised"
           /\ pos >= 1
           /\ handler.prefix = SubSeq(argv, 1, pos)
           /\ EntriesUnder(handler.prefix) = {}
           /\ handler.possible = TableUnder(SubSeq(argv, 1, pos - 1))
           /\ handler.possible # <<>>
           /\ result = handler.gave
           /\ ~invoked.called
           /\ ~ResolvedToRun

C4_Witness ==
    /\ outcome = "unrecognised"
    /\ Len(handler.prefix) = 2
    /\ Len(handler.possible) = 2
    /\ Len(argv) = 3

\* the input runs out before a unique match: it holds no help marker, every
\* prefix of it has entries under it, and at no prefix is there exactly one
\* entry left whose phrase is that prefix
RunsOutBeforeMatch ==
    /\ NoHelpMarkerIn(argv)
    /\ \A k \in 0..Len(argv) :
           /\ TableUnder(SubSeq(argv, 1, k)) # <<>>
           /\ ~UniqueMatch(TableUnder(SubSeq(argv, 1, k)), SubSeq(argv, 1, k))

\* C5: when the input runs out before a unique match, Tool.main calls the
\* incomplete-command handler with the consumed prefix and the current
\* candidates, gives back what the handler gave, and resolves and
\* instantiates no command.
C5_IncompleteWhenInputRunsOut ==
    /\ (pc = "done" /\ RunsOutBeforeMatch) => outcome = "incomplete"
    /\ outcome = "incomplete" =>
           /\ RunsOutBeforeMatch
           /\ handler.name = "handle_incomplete"
           /\ handler.prefix = argv
           /\ handler.possible = TableUnder(argv)
           /\ handler.possible = possible
           /\ result = handler.gave
           /\ ~invoked.called
           /\ ~ResolvedToRun

C5_Witness ==
    /\ outcome = "incomplete"
    /\ Len(handler.prefix) = 1
    /\ Len(handler.possible) = 1
    /\ Len(cmds) = 2

\* C6: a help marker read during phrase resolution makes Tool.main display
\* help over the current candidates, read no further token, run no command
\* and return status 0 (a return of None is exit status 0 as well).
C6_HelpReturnsZero ==
    outcome = "help" =>
        /\ [i \in 1..Len(shown.lines) |-> shown.lines[i].phrase]
               = [i \in 1..Len(possible) |-> possible[i][2]]
        /\ ~invoked.called
        /\ result \in {Returned("0"), Returned("None")}

\* C7: a phrase that is in the table more than once with one target behaves
\* as one entry: input made of that phrase's tokens, with or without tokens
\* after them, is a unique match on that target (stated for tables that hold
\* nothing but the repeated entry).
C7_DuplicatesActAsOne ==
    (/\ pc = "done"
     /\ Len(cmds) >= 2
     /\ \A i \in 1..Len(cmds) : cmds[i] = cmds[1]
     /\ IsPrefixOf(cmds[1][1], argv)
     /\ NoHelpMarkerIn(cmds[1][1])) =>
        /\ outcome = "match"
        /\ prefix = cmds[1][1]

\* the flattened pair sequence of the specification in hand
Flattened == _spec_from_dict(data)

\* spec_from_dict has been called on the specification in hand
Parsed == data.given /\ pc # "new"

\* the targets some pair gives the phrase
TargetsOf(pairs, phrase) ==
    { t \in { pairs[i][2] : i \in 1..Len(pairs) } :
        \E i \in 1..Len(pairs) : pairs[i] = <<phrase, t>> }

\* the phrases with two pairs of different targets
AmbiguousPhrases(pairs) ==
    { ph \in { pairs[i][1] : i \in 1..Len(pairs) } :
        \E i, j \in 1..Len(pairs) :
            /\ pairs[i][1] = ph /\ pairs[j][1] = ph
            /\ pairs[i][2] # pairs[j][2] }

\* C8: a flattened specification with two pairs of one phrase and different
\* targets makes validate_spec, and so spec_from_dict, fail with
\* SpecificationError; no Tool is made, and the error names every ambiguous
\* phrase with all of its conflicting targets.
C8_AmbiguityIsRejected ==
    /\ error.type = "SpecificationError" => pc = "failed" /\ cmds = <<>>
    /\ (Parsed /\ Flattened.err = ""
            /\ AmbiguousPhrases(Flattened.pairs) # {}) =>
           /\ pc = "failed"
           /\ error.type = "SpecificationError"
           /\ spec = <<>>
           /\ \A ph \in AmbiguousPhrases(Flattened.pairs) :
                  \E k \in 1..Len(error.errs) :
                      /\ error.errs[k].phrase = ph
                      /\ error.errs[k].impls = TargetsOf(Flattened.pairs, ph)
           /\ \A k \in 1..Len(error.errs) :
                  error.errs[k].phrase \in AmbiguousPhrases(Flattened.pairs)

C8_Witness ==
    /\ pc = "failed"
    /\ error.type = "SpecificationError"
    /\ Len(error.errs) = 2
    /\ Len(Flattened.pairs) = 4

\* C9: when no phrase of the flattened pair sequence has more than one
\* target, validate_spec succeeds and gives the sequence back unchanged: the
\* same pairs in the same order, a pair given twice still there twice.
C9_ValidSpecUnchanged ==
    (Parsed /\ Flattened.err = "" /\ AmbiguousPhrases(Flattened.pairs) = {}) =>
        /\ pc \in {"spec", "ready"}
        /\ error = NoError
        /\ spec = Flattened.pairs

C9_Witness ==
    /\ pc = "spec"
    /\ Len(spec) = 2
    /\ spec[1] = spec[2]

\* every value under a key that is a phrase token is a str or a mapping, and
\* every package the parser reads is a str
RECURSIVE WellFormed(_, _)
WellFormed(node, thing) ==
    /\ HasPackage(node, thing) => PackageOf(node).kind = "str"
    /\ \A i \in 1..Len(node.items) :
           StartsWithUnderscore(node.items[i][1])
           \/ node.items[i][2].kind = "str"
           \/ /\ node.items[i][2].kind = "map"
              /\ WellFormed(node.items[i][2], thing)

\* the key paths from the root to the str leaves, through keys that do not
\* start with '_', in iteration order
RECURSIVE LeafPaths(_)
LeafPaths(items) ==
    IF items = <<>> THEN <<>>
    ELSE LET key == items[1][1]
             value == items[1][2]
             below == IF value.kind = "map" THEN LeafPaths(value.items) ELSE <<>>
             here == IF StartsWithUnderscore(key) THEN <<>>
                     ELSE IF value.kind = "str" THEN <<<<key>>>>
                     ELSE [i \in 1..Len(below) |-> <<key>> \o below[i]]
         IN  here \o LeafPaths(Tail(items))

\* C10: for a well-formed nested specification without a phrase of two
\* targets, spec_from_dict gives one pair for each str leaf reached through
\* keys that do not start with '_', its phrase the keys of the path joined
\* by spaces, in iteration order: no pair for a group key or a '_' key, none
\* dropped, none invented.
C10_FlatteningIsExact ==
    (Parsed /\ WellFormed(data.root, data.thing)
            /\ AmbiguousPhrases(Flattened.pairs) = {}) =>
        /\ pc \in {"spec", "ready"}
        /\ [i \in 1..Len(spec) |-> spec[i][1]]
               = [i \in 1..Len(LeafPaths(data.root.items)) |->
                     Join(LeafPaths(data.root.items)[i])]

C10_Witness ==
    /\ pc = "spec"
    /\ data.root = MapNode(Podbay)
    /\ Len(spec) = 4

\* the mapping has a package key, whatever its type lets the code read
HasPackageKey(node) ==
    \E i \in 1..Len(node.items) : node.items[i][1] = PackageKey

\* every package key of the specification has a str value
RECURSIVE PackagesAreStr(_)
PackagesAreStr(node) ==
    /\ HasPackageKey(node) => PackageOf(node).kind = "str"
    /\ \A i \in 1..Len(node.items) :
           node.items[i][2].kind = "map" /\ node.items[i][1] # PackageKey
               => PackagesAreStr(node.items[i][2])

\* namespace and name with one dot between them, none in front
Dotted(namespace, name) ==
    IF namespace = <<>> THEN name ELSE namespace \o <<".">> \o name

\* the targets of the str leaves in iteration order: the package values of
\* the mappings from the root down to the leaf's own mapping, then the leaf
RECURSIVE LeafTargets(_, _)
RECURSIVE LeafTargetsOfItems(_, _)
LeafTargetsOfItems(namespace, items) ==
    IF items = <<>> THEN <<>>
    ELSE LET key == items[1][1]
             value == items[1][2]
             here == IF StartsWithUnderscore(key) THEN <<>>
                     ELSE IF value.kind = "str"
                     THEN <<Str(Dotted(namespace, value.s))>>
                     ELSE IF value.kind = "map"
                     THEN LeafTargets(namespace, value)
                     ELSE <<>>
         IN  here \o LeafTargetsOfItems(namespace, Tail(items))

LeafTargets(namespace, node) ==
    LeafTargetsOfItems(IF HasPackageKey(node)
                       THEN Dotted(namespace, PackageOf(node).s)
                       ELSE namespace,
                       node.items)

\* C11: the target of a flattened pair is the package values of the mappings
\* on the path from the root to the leaf's own mapping, joined by dots in
\* that order, then the leaf value, with no dot in front; a mapping without a
\* package key adds nothing, and a package key counts for its own subtree
\* only.
C11_NamespaceAccumulates ==
    (pc = "spec" /\ data.given /\ PackagesAreStr(data.root)) =>
        [i \in 1..Len(spec) |-> spec[i][2]] = LeafTargets(<<>>, data.root)

\* the pair sequence the Tool in hand was built from
BuiltFrom == IF data.given THEN spec ELSE commands

\* a Tool has been built and what it was built from is still in hand
Built == pc = "ready" /\ (data.given \/ commands # <<>>)

\* every order the pairs could have been supplied in
Orderings(pairs) ==
    { [i \in 1..Len(pairs) |-> pairs[f[i]]] :
        f \in { g \in [1..Len(pairs) -> 1..Len(pairs)] :
                  \A i, j \in 1..Len(pairs) : g[i] = g[j] => i = j } }

\* C12: the table built from a flattened nested specification and the table
\* built from the same pairs supplied by hand, in any order, are one table:
\* a (token list, phrase, target) triple for each pair, the token list being
\* the phrase split at single spaces, in ascending order of token list.
C12_SameTableBothWays ==
    Built =>
        /\ Len(cmds) = Len(BuiltFrom)
        /\ \E q \in Orderings(BuiltFrom) :
               cmds = [i \in 1..Len(q) |-> <<Split(q[i][1]), q[i][1], q[i][2]>>]
        /\ \A i, j \in 1..Len(cmds) : i < j => ~ListLess(cmds[j][1], cmds[i][1])
        /\ \A q \in Orderings(BuiltFrom) : __init__(q).cmds = cmds

C12_Witness ==
    /\ Built /\ data.given
    /\ Len(spec) = 2
    /\ cmds[1][2] = spec[2][1]
    /\ cmds[1][2] # spec[1][1]

\* help was displayed by do_help, directly or through a default handler
HelpDisplayed ==
    pc = "done" /\ outcome \in {"help", "incomplete", "unrecognised"}

\* the candidates do_help was given
HelpCandidates == IF outcome = "help" THEN possible ELSE handler.possible

\* C13: when help is displayed (for a help marker, or by the default
\* incomplete and unrecognised handlers) and a candidate's target does not
\* resolve, the failure does not leave do_help: every candidate is listed,
\* the ones that do not resolve with a placeholder for a description, and
\* the display ends normally.
C13_HelpShowsPlaceholder ==
    HelpDisplayed =>
        /\ ~shown.raised
        /\ result.kind = "return"
        /\ Len(shown.lines) = Len(HelpCandidates)
        /\ \A i \in 1..Len(shown.lines) :
               /\ shown.lines[i].phrase = HelpCandidates[i][2]
               /\ ~Resolves(HelpCandidates[i][3], importable)
                      => shown.lines[i].desc = <<"BUG">>

\* the steps of the command's main that have given o
StepsThatGave(o) ==
    { i \in 1..Len(invoked.ran) : invoked.ran[i].gave = o }

\* C14: a HelpNeeded raised by any step of Command.main (the parsing, the
\* two hooks or the action) is caught by Command.main: the help it carries
\* is printed, Command.main returns 0, and neither its caller nor Tool.main
\* sees the exception.
C14_HelpNeededNeverEscapes ==
    (invoked.called /\ StepsThatGave("HelpNeeded") # {}) =>
        /\ pc = "done"
        /\ invoked.printed
        /\ invoked.gave = Returned("0")
        /\ result = Returned("0")

\* C15: Command.main calls parse_args, check_arguments, handle_arguments and
\* the action in that order, each only after the one before it has completed,
\* so the action is not called when a step before it raised; when the action
\* returns, Command.main returns its status, 0 when that is None.
C15_StepsInOrder ==
    invoked.called =>
        /\ Len(invoked.ran) <= Len(Steps)
        /\ \A i \in 1..Len(invoked.ran) :
               /\ invoked.ran[i].step = Steps[i]
               /\ \A j \in 1..(i - 1) : invoked.ran[j].gave = Completed
        /\ pc = "command" =>
               /\ invoked.at = Steps[Len(invoked.ran) + 1]
               /\ \A j \in 1..Len(invoked.ran) : invoked.ran[j].gave = Completed
        /\ \A i \in 1..Len(invoked.ran) :
               invoked.ran[i].gave \in ActionReturns =>
                   /\ invoked.ran[i].step = "action"
                   /\ pc = "done"
                   /\ invoked.gave =
                          IF invoked.ran[i].gave = "None" THEN Returned("0")
                          ELSE Returned(invoked.ran[i].gave)

C15_Witness ==
    /\ pc = "done"
    /\ Len(invoked.ran) = 4
    /\ invoked.ran[4].gave = "None"
    /\ result = Returned("0")

\* C16: once a Tool is built, nothing changes its candidate table: no step
\* of Tool.main, of do_help, of the two handlers or of the command run, in
\* any outcome, so every dispatch on the Tool, however many came before,
\* works on the table as it was built.
C16_TableNeverMutated ==
    [][(pc \in {"ready", "loop", "post", "command", "done"}) => (cmds' = cmds)]_vars

C16_Witness ==
    /\ pc = "done"
    /\ outcome = "match"
    /\ Len(cmds) = 2
    /\ Len(possible) = 1

\* the calls of resolve() made from the given place
ResolvedAt(site) == SelectSeq(resolved, LAMBDA c : c.site = site)

\* C17: resolve() is not called while a specification is parsed or
\* validated, nor while a Tool is built, nor while Tool.main is still
\* matching; a dispatch that ends in a unique match calls it once, on the
\* matched entry's target, when the one candidate left has the consumed
\* prefix as its whole token list; any other call of it is made by do_help,
\* to display candidates.
C17_ResolvesLazily ==
    /\ pc \in {"new", "spec", "failed", "ready", "loop", "post"} =>
           resolved = <<>>
    /\ ResolvedAt("main") # <<>> =>
           /\ outcome = "match"
           /\ Len(possible) = 1
           /\ possible[1][1] = prefix
           /\ resolved = <<ResolveCall("main", possible[1][3])>>
    /\ (outcome = "match" /\ pc \in {"command", "done"}) =>
           Len(ResolvedAt("main")) = 1
    /\ ResolvedAt("do_help") # <<>> =>
           /\ outcome \in {"help", "incomplete", "unrecognised"}
           /\ resolved = shown.calls

C17_Witness ==
    /\ pc = "done"
    /\ invoked.called
    /\ Len(prefix) = 2
    /\ Len(cmds) = 2
    /\ Len(resolved) = 1

\* C18: whenever Tool.main tests its loop condition, the consumed prefix is
\* the first len(prefix) tokens of the input and the candidates are exactly
\* the table entries whose token list starts with the consumed prefix (the
\* whole table with an empty prefix at first); every pass before took one
\* token, the next one in order, so no token is looked at twice.
C18_LoopInvariant ==
    /\ pc = "loop" =>
           /\ prefix = SubSeq(argv, 1, Len(prefix))
           /\ possible = TableUnder(prefix)
           /\ pos = Len(prefix)
           /\ passes = pos
           /\ passes = 0 => possible = cmds /\ prefix = <<>>
    /\ Dispatching =>
           /\ pos <= Len(argv)
           /\ pos <= passes
           /\ passes <= pos + 1

C18_Witness ==
    /\ pc = "loop"
    /\ Len(prefix) = 2
    /\ Len(possible) = 1
    /\ Len(cmds) = 2
    /\ Len(argv) = 3

\* every call of _parse_part made on the mapping and below it, entered with
\* the given tokens, ends with its local tokens as they were at entry
RECURSIVE FramesRestoreTokens(_, _, _)
FramesRestoreTokens(tokens, node, thing) ==
    /\ _parse_part(<<>>, tokens, node, thing).tokens = tokens
    /\ \A i \in 1..Len(node.items) :
           (/\ ~StartsWithUnderscore(node.items[i][1])
            /\ node.items[i][2].kind = "map") =>
               FramesRestoreTokens(tokens \o <<node.items[i][1]>>,
                                   node.items[i][2], thing)

\* C19: in the specification parser a key's token is pushed when its
\* processing starts and popped when it ends, whether the key is a leaf, a
\* group, or has a value that raises: every call ends with the token prefix
\* it was entered with, and the phrase of every pair is made of the keys on
\* the path to its leaf, holding no token of a sibling processed earlier.
C19_TokensStrictlyNested ==
    Parsed =>
        /\ FramesRestoreTokens(<<>>, data.root, data.thing)
        /\ \A i \in 1..Len(Flattened.pairs) :
               \E k \in 1..Len(LeafPaths(data.root.items)) :
                   Flattened.pairs[i][1] = Join(LeafPaths(data.root.items)[k])

C19_Witness ==
    /\ pc = "failed"
    /\ error = Raised("AssertionError")
    /\ Len(data.root.items) = 2
    /\ data.root.items[1][2].kind = "map"
    /\ data.root.items[1][2].items # <<>>

\* a Tool has been constructed
Constructed == pc \in {"ready", "loop", "post", "command", "done"}

\* C20: the candidate table of a constructed Tool, built from pairs supplied
\* by hand or from a nested specification, never holds two entries of one
\* token list and different targets, so the target at a unique match is
\* fixed by the phrase.
C20_OneTargetPerTokenList ==
    Constructed =>
        \A i, j \in 1..Len(cmds) :
            cmds[i][1] = cmds[j][1] => cmds[i][3] = cmds[j][3]

\* the tokens that ask for help
HelpMarkers == {<<"help">>, <<"--help">>, <<"-h">>}

\* the token list holds a token that asks for help
HoldsHelpMarker(a) == \E i \in 1..Len(a) : a[i] \in HelpMarkers

\* C21: Tool.main tests a token for being 'help', '--help' or '-h' before it
\* narrows with it, so no such token is ever in the consumed prefix; a table
\* entry whose phrase holds one is therefore never the entry of a unique
\* match, whatever the input; and such a token after the unique match is
\* among the arguments the matched command is given, with every token after
\* the prefix, unchanged.
C21_HelpMarkerNeverConsumed ==
    /\ Dispatching => ~HoldsHelpMarker(prefix)
    /\ outcome = "match" =>
           /\ Len(possible) = 1
           /\ ~HoldsHelpMarker(possible[1][1])
    /\ invoked.called =>
           /\ ~HoldsHelpMarker(Split(possible[1][2]))
           /\ invoked.argv = SubSeq(argv, Len(prefix) + 1, Len(argv))
           /\ \A i \in (Len(prefix) + 1)..Len(argv) :
                  argv[i] \in HelpMarkers =>
                      invoked.argv[i - Len(prefix)] = argv[i]

C21_Witness ==
    /\ pc = "done"
    /\ invoked.called
    /\ HoldsHelpMarker(invoked.argv)
    /\ \E i \in 1..Len(cmds) : HoldsHelpMarker(cmds[i][1])

\* C22: when Tool.main is called with a token sequence, the empty one
\* included, the process's arguments are not used: the tokens it works on are
\* the sequence supplied, so the outcome is fixed by that sequence and the
\* table; an empty sequence on a table that is not empty ends as an
\* incomplete command whatever the process's arguments are.
C22_SuppliedTokensDecide ==
    (Dispatching /\ supplied.given) =>
        /\ argv = supplied.v
        /\ sysargv = <<>>
        /\ (pc = "done" /\ supplied.v = <<>> /\ cmds # <<>>) =>
               outcome = "incomplete"

====
